---- MODULE Spec2Model ----
(***************************************************************************)
(* The persistent schema and the validation shapes of app/models.py.       *)
(*                                                                         *)
(* The file is declarative: every class is a record shape whose fields     *)
(* carry constraints (type, Optional, default, max_length, enum, primary   *)
(* key, foreign key, unique, decimal precision).  The model keeps one      *)
(* descriptor per declared field, and gives the declarations their         *)
(* meaning: Validate is what the request-validation layer does with a      *)
(* table=False shape, Insert/Update is what the persistence layer does     *)
(* with a table=True entity.                                               *)
(***************************************************************************)
EXTENDS Integers, Sequences, FiniteSets, TLC

VARIABLES db, scope, req, res

vars == <<db, scope, req, res>>

----------------------------------------------------------------------------
(* Values.  A string is its content tag s and its length n; a Decimal is   *)
(* its number of digits n and of decimal places p.                         *)

Val(ty, s, n, p) == [ty |-> ty, s |-> s, n |-> n, p |-> p]

Absent == Val("absent", "", 0, 0)

None == Val("none", "", 0, 0)

StrV(s, n) == Val("str", s, n, 0)

IntV(n) == Val("int", "", n, 0)

BoolV(b) == Val("bool", "", IF b THEN 1 ELSE 0, 0)

DecV(digits, places) == Val("decimal", "", digits, places)

DateTime(t) == Val("datetime", "", t, 0)

Dict == Val("dict", "", 0, 0)

List(elem) == Val("list", elem, 0, 0)

\* datetime.utcnow, the default_factory of every timestamp column
utcnow == DateTime(0)

----------------------------------------------------------------------------
(* Enums *)

UserType == {"b2c", "b2b"}

AccountType == {"master", "member"}

CompanyType == {"startup", "sme", "corporation", "non_profit", "government", "other"}

CompanySize == {"micro", "small", "medium", "large"}

PricingPlan == {"week_pass", "bestprice"}

QueryType == {"light", "main"}

Language ==
    {"bg", "cs", "da", "de", "el", "en", "es", "et", "fi", "fr", "ga", "hr",
     "hu", "it", "lt", "lv", "mt", "nl", "pl", "pt", "ro", "sk", "sl", "sv"}

EnumNames ==
    {"UserType", "AccountType", "CompanyType", "CompanySize", "PricingPlan",
     "QueryType", "Language"}

Members(e) ==
    CASE e = "UserType" -> UserType
      [] e = "AccountType" -> AccountType
      [] e = "CompanyType" -> CompanyType
      [] e = "CompanySize" -> CompanySize
      [] e = "PricingPlan" -> PricingPlan
      [] e = "QueryType" -> QueryType
      [] e = "Language" -> Language

----------------------------------------------------------------------------
(* Field declarations.  Field(ty) is a required field of type ty with no   *)
(* constraint; the operators below add what Field(...) and the annotation  *)
(* declare.                                                                *)

Field(ty) ==
    [ty |-> ty, optional |-> FALSE, has_default |-> FALSE, default |-> Absent,
     max_length |-> -1, min_length |-> 0, enum |-> "", foreign_key |-> "",
     unique |-> FALSE, primary_key |-> FALSE, max_digits |-> -1,
     decimal_places |-> -1]

StrField(max) == [max_length |-> max] @@ Field("str")

EnumField(e) == [enum |-> e] @@ Field("enum")

DecimalField(digits, places) ==
    [max_digits |-> digits, decimal_places |-> places] @@ Field("decimal")

\* Optional[T] = Field(default=None, ...)
Optional(d) == [optional |-> TRUE, has_default |-> TRUE, default |-> None] @@ d

\* Field(default=v, ...) and Field(default_factory=...)
Default(v, d) == [has_default |-> TRUE, default |-> v] @@ d

ForeignKey(t, d) == [foreign_key |-> t] @@ d

Unique(d) == [unique |-> TRUE] @@ d

PrimaryKey(d) == [primary_key |-> TRUE] @@ d

\* id: Optional[int] = Field(default=None, primary_key=True)
IdField == PrimaryKey(Optional(Field("int")))

\* created_at / updated_at / ...: datetime = Field(default_factory=datetime.utcnow)
Timestamp == Default(utcnow, Field("datetime"))

----------------------------------------------------------------------------
(* Persistent entities (table=True) *)

Organization ==
    [id |-> IdField,
     name |-> StrField(200),
     company_type |-> EnumField("CompanyType"),
     company_size |-> EnumField("CompanySize"),
     headquarters_location |-> StrField(100),
     subsidiary_locations |-> Default(List("str"), Field("list_str")),
     sso_enabled |-> Default(BoolV(FALSE), Field("bool")),
     sso_config |-> Default(Dict, Field("dict")),
     created_at |-> Timestamp,
     updated_at |-> Timestamp]

\* User with email declared without unique=True.
UserEmailNotUnique ==
    [id |-> IdField,
     email |-> StrField(255),
     password_hash |-> StrField(255),
     user_type |-> EnumField("UserType"),
     account_type |-> Optional(EnumField("AccountType")),
     organization_id |-> ForeignKey("organizations", Optional(Field("int"))),
     is_active |-> Default(BoolV(TRUE), Field("bool")),
     can_generate_api_keys |-> Default(BoolV(FALSE), Field("bool")),
     created_at |-> Timestamp,
     updated_at |-> Timestamp]

User ==
    [id |-> IdField,
     email |-> Unique(StrField(255)),
     password_hash |-> StrField(255),
     user_type |-> EnumField("UserType"),
     account_type |-> Optional(EnumField("AccountType")),
     organization_id |-> ForeignKey("organizations", Optional(Field("int"))),
     is_active |-> Default(BoolV(TRUE), Field("bool")),
     can_generate_api_keys |-> Default(BoolV(FALSE), Field("bool")),
     created_at |-> Timestamp,
     updated_at |-> Timestamp]

\* UserContext with user_id declared without unique=True.
UserContextNotUnique ==
    [id |-> IdField,
     user_id |-> ForeignKey("users", Field("int")),
     user_type_context |-> StrField(50),
     home_location |-> StrField(100),
     preferred_language |-> EnumField("Language"),
     profession |-> StrField(100),
     personal_notes |-> Default(StrV("", 0), StrField(2000)),
     context_data |-> Default(Dict, Field("dict")),
     created_at |-> Timestamp,
     updated_at |-> Timestamp]

UserContext ==
    [id |-> IdField,
     user_id |-> Unique(ForeignKey("users", Field("int"))),
     user_type_context |-> StrField(50),
     home_location |-> StrField(100),
     preferred_language |-> EnumField("Language"),
     profession |-> StrField(100),
     personal_notes |-> Default(StrV("", 0), StrField(2000)),
     context_data |-> Default(Dict, Field("dict")),
     created_at |-> Timestamp,
     updated_at |-> Timestamp]

APIKey ==
    [id |-> IdField,
     key_hash |-> Unique(StrField(255)),
     name |-> StrField(100),
     user_id |-> ForeignKey("users", Field("int")),
     organization_id |-> ForeignKey("organizations", Optional(Field("int"))),
     is_active |-> Default(BoolV(TRUE), Field("bool")),
     last_used_at |-> Optional(Field("datetime")),
     expires_at |-> Optional(Field("datetime")),
     created_at |-> Timestamp]

\* Subscription with token_allowance declared as a required int.
SubscriptionAllowanceRequired ==
    [id |-> IdField,
     user_id |-> ForeignKey("users", Field("int")),
     pricing_plan |-> EnumField("PricingPlan"),
     is_active |-> Default(BoolV(TRUE), Field("bool")),
     token_allowance |-> Field("int"),
     tokens_used |-> Default(IntV(0), Field("int")),
     week_pass_expires_at |-> Optional(Field("datetime")),
     week_pass_price |-> Optional(DecimalField(10, 2)),
     current_price_per_1k_tokens |-> Optional(DecimalField(10, 4)),
     total_tokens_consumed |-> Default(IntV(0), Field("int")),
     created_at |-> Timestamp,
     updated_at |-> Timestamp]

\* Subscription with current_price_per_1k_tokens declared as required.
SubscriptionPriceRequired ==
    [id |-> IdField,
     user_id |-> ForeignKey("users", Field("int")),
     pricing_plan |-> EnumField("PricingPlan"),
     is_active |-> Default(BoolV(TRUE), Field("bool")),
     token_allowance |-> Optional(Field("int")),
     tokens_used |-> Default(IntV(0), Field("int")),
     week_pass_expires_at |-> Optional(Field("datetime")),
     week_pass_price |-> Optional(DecimalField(10, 2)),
     current_price_per_1k_tokens |-> DecimalField(10, 4),
     total_tokens_consumed |-> Default(IntV(0), Field("int")),
     created_at |-> Timestamp,
     updated_at |-> Timestamp]

Subscription ==
    [id |-> IdField,
     user_id |-> ForeignKey("users", Field("int")),
     pricing_plan |-> EnumField("PricingPlan"),
     is_active |-> Default(BoolV(TRUE), Field("bool")),
     token_allowance |-> Optional(Field("int")),
     tokens_used |-> Default(IntV(0), Field("int")),
     week_pass_expires_at |-> Optional(Field("datetime")),
     week_pass_price |-> Optional(DecimalField(10, 2)),
     current_price_per_1k_tokens |-> Optional(DecimalField(10, 4)),
     total_tokens_consumed |-> Default(IntV(0), Field("int")),
     created_at |-> Timestamp,
     updated_at |-> Timestamp]

\* TokenUsage with query_id declared without foreign_key.
TokenUsageNoQueryFk ==
    [id |-> IdField,
     subscription_id |-> ForeignKey("subscriptions", Field("int")),
     query_id |-> Optional(Field("int")),
     tokens_consumed |-> Field("int"),
     cost |-> DecimalField(10, 4),
     timestamp |-> Timestamp]

TokenUsage ==
    [id |-> IdField,
     subscription_id |-> ForeignKey("subscriptions", Field("int")),
     query_id |-> ForeignKey("queries", Optional(Field("int"))),
     tokens_consumed |-> Field("int"),
     cost |-> DecimalField(10, 4),
     timestamp |-> Timestamp]

Document ==
    [id |-> IdField,
     user_id |-> ForeignKey("users", Field("int")),
     filename |-> StrField(255),
     original_filename |-> StrField(255),
     file_size |-> Field("int"),
     mime_type |-> StrField(100),
     file_path |-> StrField(500),
     language |-> Optional(EnumField("Language")),
     processed |-> Default(BoolV(FALSE), Field("bool")),
     processing_error |-> Optional(StrField(1000)),
     uploaded_at |-> Timestamp,
     processed_at |-> Optional(Field("datetime"))]

ChatSession ==
    [id |-> IdField,
     user_id |-> ForeignKey("users", Field("int")),
     title |-> StrField(200),
     query_type |-> EnumField("QueryType"),
     language |-> EnumField("Language"),
     is_active |-> Default(BoolV(TRUE), Field("bool")),
     session_context |-> Default(Dict, Field("dict")),
     created_at |-> Timestamp,
     updated_at |-> Timestamp]

\* ChatSessionDocument with chat_session_id alone as the primary key.
ChatSessionDocumentSessionKey ==
    [chat_session_id |-> PrimaryKey(ForeignKey("chat_sessions", Field("int"))),
     document_id |-> ForeignKey("documents", Field("int")),
     added_at |-> Timestamp]

ChatSessionDocument ==
    [chat_session_id |-> PrimaryKey(ForeignKey("chat_sessions", Field("int"))),
     document_id |-> PrimaryKey(ForeignKey("documents", Field("int"))),
     added_at |-> Timestamp]

Query ==
    [id |-> IdField,
     user_id |-> ForeignKey("users", Field("int")),
     chat_session_id |-> ForeignKey("chat_sessions", Optional(Field("int"))),
     query_type |-> EnumField("QueryType"),
     query_text |-> StrField(5000),
     response_text |-> Default(StrV("", 0), Field("str")),
     language |-> EnumField("Language"),
     tokens_consumed |-> Default(IntV(0), Field("int")),
     processing_time_ms |-> Optional(Field("int")),
     sources |-> Default(List("dict"), Field("list_dict")),
     chunks |-> Default(List("dict"), Field("list_dict")),
     context_used |-> Default(Dict, Field("dict")),
     created_at |-> Timestamp]

BillingRecord ==
    [id |-> IdField,
     user_id |-> ForeignKey("users", Field("int")),
     subscription_id |-> ForeignKey("subscriptions", Field("int")),
     billing_period_start |-> Field("datetime"),
     billing_period_end |-> Field("datetime"),
     total_tokens |-> Field("int"),
     total_cost |-> DecimalField(10, 2),
     currency |-> Default(StrV("EUR", 3), StrField(3)),
     created_at |-> Timestamp]

\* __tablename__ of every table=True class
Tables ==
    {"organizations", "users", "user_contexts", "api_keys", "subscriptions",
     "token_usages", "documents", "chat_sessions", "chat_session_documents",
     "queries", "billing_records"}

Entity(t) ==
    CASE t = "organizations" -> Organization
      [] t = "users" -> User
      [] t = "user_contexts" -> UserContext
      [] t = "api_keys" -> APIKey
      [] t = "subscriptions" -> Subscription
      [] t = "token_usages" -> TokenUsage
      [] t = "documents" -> Document
      [] t = "chat_sessions" -> ChatSession
      [] t = "chat_session_documents" -> ChatSessionDocument
      [] t = "queries" -> Query
      [] t = "billing_records" -> BillingRecord

----------------------------------------------------------------------------
(* Validation shapes (table=False) *)

\* UserCreate with user_type declared as a plain str.
UserCreateTypeUnchecked ==
    [email |-> StrField(255),
     password |-> [min_length |-> 8] @@ Field("str"),
     user_type |-> Field("str"),
     organization_name |-> Optional(StrField(200))]

UserCreate ==
    [email |-> StrField(255),
     password |-> [min_length |-> 8] @@ Field("str"),
     user_type |-> EnumField("UserType"),
     organization_name |-> Optional(StrField(200))]

\* UserContextCreate with a profession of up to 200 characters.
UserContextCreateLongProfession ==
    [user_type_context |-> StrField(50),
     home_location |-> StrField(100),
     preferred_language |-> EnumField("Language"),
     profession |-> StrField(200),
     personal_notes |-> Default(StrV("", 0), StrField(2000)),
     context_data |-> Default(Dict, Field("dict"))]

UserContextCreate ==
    [user_type_context |-> StrField(50),
     home_location |-> StrField(100),
     preferred_language |-> EnumField("Language"),
     profession |-> StrField(100),
     personal_notes |-> Default(StrV("", 0), StrField(2000)),
     context_data |-> Default(Dict, Field("dict"))]

\* UserContextUpdate with profession declared as a required str.
UserContextUpdateProfessionRequired ==
    [user_type_context |-> Optional(StrField(50)),
     home_location |-> Optional(StrField(100)),
     preferred_language |-> Optional(EnumField("Language")),
     profession |-> StrField(100),
     personal_notes |-> Optional(StrField(2000)),
     context_data |-> Optional(Field("dict"))]

UserContextUpdate ==
    [user_type_context |-> Optional(StrField(50)),
     home_location |-> Optional(StrField(100)),
     preferred_language |-> Optional(EnumField("Language")),
     profession |-> Optional(StrField(100)),
     personal_notes |-> Optional(StrField(2000)),
     context_data |-> Optional(Field("dict"))]

OrganizationCreate ==
    [name |-> StrField(200),
     company_type |-> EnumField("CompanyType"),
     company_size |-> EnumField("CompanySize"),
     headquarters_location |-> StrField(100),
     subsidiary_locations |-> Default(List("str"), Field("list_str"))]

QueryCreate ==
    [query_text |-> StrField(5000),
     query_type |-> EnumField("QueryType"),
     language |-> EnumField("Language"),
     chat_session_id |-> Optional(Field("int"))]

SubscriptionCreate ==
    [pricing_plan |-> EnumField("PricingPlan"),
     token_allowance |-> Optional(Field("int")),
     week_pass_price |-> Optional(Field("decimal"))]

APIKeyCreate ==
    [name |-> StrField(100),
     expires_at |-> Optional(Field("datetime"))]

DocumentUpload ==
    [filename |-> StrField(255),
     file_size |-> Field("int"),
     mime_type |-> StrField(100),
     language |-> Optional(EnumField("Language"))]

ChatSessionCreate ==
    [title |-> StrField(200),
     query_type |-> EnumField("QueryType"),
     language |-> EnumField("Language"),
     document_ids |-> Default(List("int"), Field("list_int"))]

Shapes ==
    {"UserCreate", "UserContextCreate", "UserContextUpdate", "OrganizationCreate",
     "QueryCreate", "SubscriptionCreate", "APIKeyCreate", "DocumentUpload",
     "ChatSessionCreate"}

Shape(c) ==
    CASE c = "UserCreate" -> UserCreate
      [] c = "UserContextCreate" -> UserContextCreate
      [] c = "UserContextUpdate" -> UserContextUpdate
      [] c = "OrganizationCreate" -> OrganizationCreate
      [] c = "QueryCreate" -> QueryCreate
      [] c = "SubscriptionCreate" -> SubscriptionCreate
      [] c = "APIKeyCreate" -> APIKeyCreate
      [] c = "DocumentUpload" -> DocumentUpload
      [] c = "ChatSessionCreate" -> ChatSessionCreate

----------------------------------------------------------------------------
(* What a declaration means for one value *)

\* The value v satisfies the type and the constraints of the declaration d.
FieldOk(d, v) ==
    IF v = None THEN d.optional
    ELSE CASE d.ty = "str" ->
                /\ v.ty = "str"
                /\ d.max_length >= 0 => v.n <= d.max_length
                /\ v.n >= d.min_length
           [] d.ty = "enum" -> v.ty = "str" /\ v.s \in Members(d.enum)
           [] d.ty = "int" -> v.ty = "int"
           [] d.ty = "bool" -> v.ty = "bool"
           [] d.ty = "decimal" ->
                /\ v.ty = "decimal"
                /\ d.decimal_places >= 0 => v.p <= d.decimal_places
                /\ d.max_digits >= 0 => v.n <= d.max_digits
                /\ (d.max_digits >= 0 /\ d.decimal_places >= 0)
                      => v.n - v.p <= d.max_digits - d.decimal_places
           [] d.ty = "datetime" -> v.ty = "datetime"
           [] d.ty = "dict" -> v.ty = "dict"
           [] d.ty = "list_str" -> v.ty = "list" /\ v.s = "str"
           [] d.ty = "list_int" -> v.ty = "list" /\ v.s = "int"
           [] d.ty = "list_dict" -> v.ty = "list" /\ v.s = "dict"

\* An input with every omitted field replaced by its declared default; a
\* required field that was omitted stays Absent.
Filled(m, input) ==
    [f \in DOMAIN m |-> IF input[f] = Absent THEN m[f].default ELSE input[f]]

\* Every field is present and satisfies its declaration.
Valid(m, row) ==
    \A f \in DOMAIN m : row[f] # Absent /\ FieldOk(m[f], row[f])

\* The request-validation layer on a table=False shape: the verdict and the
\* object built.
Validate(c, input) ==
    LET out == Filled(Shape(c), input)
    IN  [ok |-> Valid(Shape(c), out), out |-> out]

----------------------------------------------------------------------------
(* The persistence layer on the table=True entities *)

EmptyDb == [t \in Tables |-> {}]

PkFields(m) == {f \in DOMAIN m : m[f].primary_key}

UniqueFields(m) == {f \in DOMAIN m : m[f].unique}

FkFields(m) == {f \in DOMAIN m : m[f].foreign_key # ""}

\* AUTOINCREMENT of an integer primary key left None
NextId(rows) ==
    LET used == {r.id.n : r \in rows}
    IN  IF used = {} THEN 1 ELSE 1 + CHOOSE n \in used : \A k \in used : k <= n

\* The row the persistence layer stores for an input: defaults applied, and
\* the id assigned when the input leaves it None.
Stored(d, t, input) ==
    LET m == Entity(t)
        row == Filled(m, input)
    IN  IF "id" \in DOMAIN m /\ row.id = None
        THEN [row EXCEPT !.id = IntV(NextId(d[t]))]
        ELSE row

\* PRIMARY KEY: no column of the key is NULL, no other row has the same key.
PkOk(m, others, row) ==
    /\ \A f \in PkFields(m) : row[f] # None
    /\ PkFields(m) # {} => \A r \in others : \E f \in PkFields(m) : r[f] # row[f]

\* UNIQUE: no other row has the same value in a unique column.
UniqueOk(m, others, row) ==
    \A f \in UniqueFields(m) :
        row[f] = None \/ \A r \in others : r[f] # row[f]

\* FOREIGN KEY: a value that is not NULL is the id of a row of the table named.
FkOk(m, d, row) ==
    \A f \in FkFields(m) :
        row[f] = None \/ \E r \in d[m[f].foreign_key] : r.id = row[f]

\* The constraints the schema declares on table t, for a row next to others.
Accepts(d, t, others, row) ==
    LET m == Entity(t)
    IN  /\ Valid(m, row)
        /\ PkOk(m, others, row)
        /\ UniqueOk(m, others, row)
        /\ FkOk(m, d, row)

\* INSERT of one row.
InsertResult(d, t, input) ==
    LET row == Stored(d, t, input)
    IN  IF Accepts(d, t, d[t], row)
        THEN [ok |-> TRUE, db |-> [d EXCEPT ![t] = @ \cup {row}]]
        ELSE [ok |-> FALSE, db |-> d]

\* Some row still names row old of table t by a foreign key (the declared
\* foreign keys have no ON UPDATE rule: the key of a row in use cannot change).
Referenced(d, t, old) ==
    /\ "id" \in DOMAIN old
    /\ \E t2 \in Tables : \E f \in FkFields(Entity(t2)) :
          /\ Entity(t2)[f].foreign_key = t
          /\ \E r \in d[t2] : r[f] = old.id

\* UPDATE of one field of one row.
UpdateResult(d, t, old, f, v) ==
    LET new == [old EXCEPT ![f] = v]
        keyChanged == "id" \in DOMAIN old /\ new.id # old.id
    IN  IF /\ Accepts(d, t, d[t] \ {old}, new)
           /\ ~(keyChanged /\ Referenced(d, t, old))
        THEN [ok |-> TRUE, db |-> [d EXCEPT ![t] = (@ \ {old}) \cup {new}]]
        ELSE [ok |-> FALSE, db |-> d]

----------------------------------------------------------------------------
(* Inputs *)

\* The ids a run uses, as primary keys and as foreign key values.
MaxId == 2

Text(s) == StrV(s, Len(s))

\* A value that satisfies the declaration d.
Sample(d) ==
    CASE d.ty = "str" -> StrV("x", IF d.min_length > 1 THEN d.min_length ELSE 1)
      [] d.ty = "enum" -> Text(CHOOSE s \in Members(d.enum) : TRUE)
      [] d.ty = "int" -> IntV(1)
      [] d.ty = "bool" -> BoolV(TRUE)
      [] d.ty = "decimal" -> DecV(3, 2)
      [] d.ty = "datetime" -> DateTime(1)
      [] d.ty = "dict" -> Dict
      [] d.ty = "list_str" -> List("str")
      [] d.ty = "list_int" -> List("int")
      [] d.ty = "list_dict" -> List("dict")

\* The input that gives every required field a valid value and omits the rest.
BaseInput(m) ==
    [f \in DOMAIN m |-> IF m[f].has_default THEN Absent ELSE Sample(m[f])]

\* One row in every table that other tables refer to, inserted in order into
\* the empty database: the state every run starts from.
SeedOrder ==
    <<"organizations", "users", "subscriptions", "documents", "chat_sessions",
      "queries">>

RECURSIVE SeedFrom(_, _)
SeedFrom(d, i) ==
    IF i > Len(SeedOrder) THEN d
    ELSE SeedFrom(InsertResult(d, SeedOrder[i], BaseInput(Entity(SeedOrder[i]))).db,
                  i + 1)

Seed == SeedFrom(EmptyDb, 1)

Ids == {IntV(i) : i \in 1..MaxId}

IdVals == {Absent} \cup Ids

FkVals == {None} \cup Ids

KeyVals == {Text("a"), Text("b")}

\* The columns that relate rows: keys, unique columns, foreign keys.
RelFields(m) == PkFields(m) \cup UniqueFields(m) \cup FkFields(m)

RelVals(m, f) ==
    IF m[f].foreign_key # "" THEN FkVals
    ELSE IF f = "id" THEN IdVals ELSE KeyVals

\* The inputs of a run: the base input with every choice of its relating
\* columns.
RelInputs ==
    [t \in Tables |->
        LET m == Entity(t)
            K == RelFields(m)
            choices == {a \in [K -> IdVals \cup FkVals \cup KeyVals] :
                          \A f \in K : a[f] \in RelVals(m, f)}
        IN  {[f \in DOMAIN m |-> IF f \in K THEN a[f] ELSE BaseInput(m)[f]] :
                a \in choices}]

----------------------------------------------------------------------------
(* The database under inserts and field updates.  scope is the set of      *)
(* tables a run writes to; the other tables keep their rows.               *)

NoReq == [op |-> "none", target |-> "", input |-> <<>>, field |-> "", value |-> Absent]

NoRes == [done |-> FALSE, ok |-> FALSE, out |-> <<>>]

InitDb(scopes) ==
    /\ db = Seed
    /\ scope \in scopes
    /\ req = NoReq
    /\ res = NoRes

Insert(t, input) ==
    /\ t \in scope
    /\ ("id" \in DOMAIN input /\ input.id = Absent) => NextId(db[t]) <= MaxId
    /\ db' = InsertResult(db, t, input).db
    /\ UNCHANGED <<scope, req, res>>

Update(t, old, f, v) ==
    /\ t \in scope
    /\ db' = UpdateResult(db, t, old, f, v).db
    /\ UNCHANGED <<scope, req, res>>

Next ==
    \/ \E t \in Tables : \E input \in RelInputs[t] : Insert(t, input)
    \/ \E t \in Tables : \E old \in db[t] : \E f \in RelFields(Entity(t)) :
          \E v \in RelVals(Entity(t), f) \ {Absent} : Update(t, old, f, v)

\* Every key, unique column and foreign key: each table alone, and three
\* tables with the table they refer to.
SpecFk ==
    InitDb({{t} : t \in Tables}
             \cup {{"organizations", "users"}, {"subscriptions", "billing_records"},
                   {"queries", "token_usages"}})
      /\ [][Next]_vars

\* Document, ChatSession and the join entity between them; ChatSession and
\* its queries; Document and its users.
SpecLinks ==
    InitDb({{"documents", "chat_sessions", "chat_session_documents"},
            {"chat_sessions", "queries"}, {"users", "documents"}})
      /\ [][Next]_vars

\* TokenUsage with Query, and with Subscription.
SpecUsage ==
    InitDb({{"queries", "token_usages"}, {"subscriptions", "token_usages"}})
      /\ [][Next]_vars

\* User and UserContext.
SpecContext == InitDb({{"users", "user_contexts"}}) /\ [][Next]_vars

----------------------------------------------------------------------------
(* One request against the seeded database: the validation of an input to  *)
(* a shape, the insert of a row, or the update of one field of a row.      *)

\* Values of the declared type on both sides of each limit, and values that
\* are not of the type.
TypeVals(d) ==
    CASE d.ty = "str" ->
            {StrV("x", n) : n \in
                {0, 1} \cup (IF d.min_length > 0 THEN {d.min_length - 1, d.min_length}
                             ELSE {})
                       \cup (IF d.max_length >= 0 THEN {d.max_length, d.max_length + 1}
                             ELSE {5001})}
      [] d.ty = "enum" ->
            {Text(x) : x \in Members(d.enum)}
              \cup {Text(""), Text("zz"), Text("B2C"), Text("EN"), Text("WEEK_PASS"),
                    Text("english"), IntV(1)}
      [] d.ty = "int" -> {IntV(0), IntV(1), IntV(7), Text("x")}
      [] d.ty = "bool" -> {BoolV(TRUE), BoolV(FALSE)}
      [] d.ty = "decimal" ->
            {DecV(3, 2), DecV(9, 0), DecV(10, 2), DecV(11, 2), DecV(5, 4),
             DecV(10, 4), DecV(5, 5), Text("x")}
      [] d.ty = "datetime" -> {DateTime(1), Text("x")}
      [] d.ty = "dict" -> {Dict, IntV(1)}
      [] d.ty = "list_str" -> {List("str"), List("dict"), IntV(1)}
      [] d.ty = "list_int" -> {List("int"), List("dict"), IntV(1)}
      [] d.ty = "list_dict" -> {List("dict"), IntV(1)}

\* What a request may give for field f of m, None and nothing included.
Tries(m, f) ==
    (IF f \in RelFields(m) THEN RelVals(m, f) ELSE TypeVals(m[f]))
      \cup {None, Absent}

\* A valid value for field f of m that no row of the seed has, where the
\* column is a key or unique.
PresentVal(m, f) ==
    IF m[f].primary_key /\ f = "id" THEN IntV(MaxId)
    ELSE IF m[f].unique /\ m[f].ty = "str" THEN Text("a")
    ELSE Sample(m[f])

\* The base input, with a fresh value in every unique column.
FreshInput(m) ==
    [f \in DOMAIN m |-> IF m[f].has_default THEN Absent ELSE PresentVal(m, f)]

\* The base input with one field replaced.
Vary1(m) ==
    UNION {{[FreshInput(m) EXCEPT ![f] = v] : v \in Tries(m, f)} : f \in DOMAIN m}

\* The base input with any subset of the fields that have a default given.
Omissions(m) ==
    {[f \in DOMAIN m |-> IF f \in P THEN PresentVal(m, f) ELSE FreshInput(m)[f]] :
        P \in SUBSET {f \in DOMAIN m : m[f].has_default}}

\* Subscription rows with every combination of the plan and the fields of
\* the two plans.
SubscriptionInputs ==
    {[FreshInput(Subscription) EXCEPT
        !.pricing_plan = Text(plan), !.token_allowance = a, !.tokens_used = u,
        !.week_pass_price = wp, !.week_pass_expires_at = we,
        !.current_price_per_1k_tokens = cp] :
        plan \in PricingPlan, a \in {Absent, None, IntV(0), IntV(5)},
        u \in {Absent, IntV(0), IntV(9)}, wp \in {Absent, DecV(3, 2)},
        we \in {Absent, DateTime(1)}, cp \in {Absent, DecV(5, 4)}}

SubscriptionCreateInputs ==
    {[pricing_plan |-> Text(plan), token_allowance |-> a, week_pass_price |-> wp] :
        plan \in PricingPlan, a \in {Absent, None, IntV(0), IntV(5)},
        wp \in {Absent, None, DecV(3, 2)}}

ShapeInputs(c) ==
    Vary1(Shape(c)) \cup Omissions(Shape(c))
      \cup (IF c = "SubscriptionCreate" THEN SubscriptionCreateInputs ELSE {})

RowInputs(t) ==
    Vary1(Entity(t)) \cup Omissions(Entity(t))
      \cup (IF t = "subscriptions" THEN SubscriptionInputs ELSE {})

Request(op, target, input, field, value) ==
    [op |-> op, target |-> target, input |-> input, field |-> field,
     value |-> value]

Requests ==
    UNION {{Request("validate", c, i, "", Absent) : i \in ShapeInputs(c)} :
             c \in Shapes}
      \cup UNION {{Request("insert", t, i, "", Absent) : i \in RowInputs(t)} :
                    t \in Tables}
      \cup UNION {UNION {UNION {{Request("update", t, old, f, v) :
                                  v \in Tries(Entity(t), f) \ {Absent}} :
                                f \in DOMAIN Entity(t)} :
                         old \in Seed[t]} :
                    t \in Tables}

InitSchema ==
    /\ db = Seed
    /\ scope = {}
    /\ req \in Requests
    /\ res = NoRes

ValidateRequest ==
    /\ req.op = "validate"
    /\ ~res.done
    /\ LET r == Validate(req.target, req.input)
       IN  res' = [done |-> TRUE, ok |-> r.ok, out |-> r.out]
    /\ UNCHANGED <<db, scope, req>>

InsertRequest ==
    /\ req.op = "insert"
    /\ ~res.done
    /\ LET r == InsertResult(db, req.target, req.input)
       IN  /\ db' = r.db
           /\ res' = [done |-> TRUE, ok |-> r.ok,
                      out |-> Stored(db, req.target, req.input)]
    /\ UNCHANGED <<scope, req>>

UpdateRequest ==
    /\ req.op = "update"
    /\ ~res.done
    /\ LET r == UpdateResult(db, req.target, req.input, req.field, req.value)
       IN  /\ db' = r.db
           /\ res' = [done |-> TRUE, ok |-> r.ok,
                      out |-> [req.input EXCEPT ![req.field] = req.value]]
    /\ UNCHANGED <<scope, req>>

NextSchema == ValidateRequest \/ InsertRequest \/ UpdateRequest

SpecSchema == InitSchema /\ [][NextSchema]_vars

----------------------------------------------------------------------------
(* Properties of the database *)

\* The foreign keys: <<table, column, table referred to>>.
ClaimedFks ==
    {<<"users", "organization_id", "organizations">>,
     <<"user_contexts", "user_id", "users">>,
     <<"api_keys", "user_id", "users">>,
     <<"api_keys", "organization_id", "organizations">>,
     <<"subscriptions", "user_id", "users">>,
     <<"token_usages", "subscription_id", "subscriptions">>,
     <<"token_usages", "query_id", "queries">>,
     <<"documents", "user_id", "users">>,
     <<"chat_sessions", "user_id", "users">>,
     <<"chat_session_documents", "chat_session_id", "chat_sessions">>,
     <<"chat_session_documents", "document_id", "documents">>,
     <<"queries", "user_id", "users">>,
     <<"queries", "chat_session_id", "chat_sessions">>,
     <<"billing_records", "user_id", "users">>,
     <<"billing_records", "subscription_id", "subscriptions">>}

\* v is a value, and no row of table target has it as its id.
Dangles(d, target, v) ==
    v \notin {None, Absent} /\ ~\E p \in d[target] : p.id = v

Rejected(r) == ~r.ok /\ r.db = db

\* C1: every foreign key value that is not null is the id of a row of the
\* table referred to; an insert, or an update of a foreign key, with a value
\* that is no such id is rejected and leaves the database as it was.
C1_ReferentialExistence ==
    /\ \A fk \in ClaimedFks : \A r \in db[fk[1]] :
          r[fk[2]] # None => \E p \in db[fk[3]] : p.id = r[fk[2]]
    /\ \A fk \in ClaimedFks : fk[1] \in scope =>
          /\ \A input \in RelInputs[fk[1]] :
                Dangles(db, fk[3], input[fk[2]])
                  => Rejected(InsertResult(db, fk[1], input))
          /\ \A old \in db[fk[1]] : \A v \in FkVals :
                Dangles(db, fk[3], v)
                  => Rejected(UpdateResult(db, fk[1], old, fk[2], v))

\* A TokenUsage row names a query and a subscription, and an insert naming a
\* query that does not exist is refused.
C1_Witness ==
    /\ \E u \in db["token_usages"] : u.query_id # None /\ u.subscription_id # None
    /\ \E input \in RelInputs["token_usages"] :
          /\ Dangles(db, "queries", input.query_id)
          /\ Rejected(InsertResult(db, "token_usages", input))

\* C3: for every Query row there is at most one TokenUsage row whose query_id
\* is that query's id.
C3_AtMostOneTokenUsagePerQuery ==
    \A q \in db["queries"] :
        Cardinality({u \in db["token_usages"] : u.query_id = q.id}) <= 1

\* C4: every user is named by at most one UserContext row; every UserContext
\* row names exactly one existing user; the insert of a second UserContext
\* for a user is rejected.
C4_UserContextOneToOne ==
    /\ \A u \in db["users"] :
          Cardinality({c \in db["user_contexts"] : c.user_id = u.id}) <= 1
    /\ \A c \in db["user_contexts"] :
          /\ c.user_id # None
          /\ Cardinality({u \in db["users"] : u.id = c.user_id}) = 1
    /\ \A input \in RelInputs["user_contexts"] :
          (\E c \in db["user_contexts"] : c.user_id = input.user_id)
            => Rejected(InsertResult(db, "user_contexts", input))

\* Two users, one with a context; a second context for that user is refused.
C4_Witness ==
    /\ Cardinality(db["users"]) >= 2
    /\ \E c \in db["user_contexts"] : \E input \in RelInputs["user_contexts"] :
          /\ input.user_id = c.user_id
          /\ input.id \notin {r.id : r \in db["user_contexts"]}
          /\ Rejected(InsertResult(db, "user_contexts", input))

SamePair(a, b) ==
    a.chat_session_id = b.chat_session_id /\ a.document_id = b.document_id

\* C5: no two ChatSessionDocument rows have the same (chat_session_id,
\* document_id); the insert of a pair already there is rejected, and the
\* insert of a new pair of an existing chat session and an existing document
\* is accepted.
C5_CompositeKey ==
    /\ \A a \in db["chat_session_documents"] :
          \A b \in db["chat_session_documents"] : SamePair(a, b) => a = b
    /\ "chat_session_documents" \in scope =>
          \A input \in RelInputs["chat_session_documents"] :
            LET r == InsertResult(db, "chat_session_documents", input)
                known == \E a \in db["chat_session_documents"] : SamePair(a, input)
            IN  /\ known => Rejected(r)
                /\ (~known
                      /\ (\E c \in db["chat_sessions"] : c.id = input.chat_session_id)
                      /\ (\E e \in db["documents"] : e.id = input.document_id))
                     => r.ok /\ r.db # db

\* One document linked to two chat sessions, and one chat session to two
\* documents.
C5_Witness ==
    /\ \E a \in db["chat_session_documents"] : \E b \in db["chat_session_documents"] :
          a.document_id = b.document_id /\ a.chat_session_id # b.chat_session_id
    /\ \E a \in db["chat_session_documents"] : \E b \in db["chat_session_documents"] :
          a.chat_session_id = b.chat_session_id /\ a.document_id # b.document_id

\* input would be stored with the same value in column f as a row of table t.
Duplicates(d, t, f, input) ==
    \E r \in d[t] : r[f] = Stored(d, t, input)[f]

\* C10: no two users have the same email, no two API keys the same key_hash,
\* no two rows of a table the same id; an insert or an update that would make
\* such a pair is rejected and leaves the database as it was.
C10_UniqueColumns ==
    /\ \A a \in db["users"] : \A b \in db["users"] : a.email = b.email => a = b
    /\ \A a \in db["api_keys"] : \A b \in db["api_keys"] :
          a.key_hash = b.key_hash => a = b
    /\ \A t \in Tables \ {"chat_session_documents"} :
          \A a \in db[t] : \A b \in db[t] : a.id = b.id => a = b
    /\ \A t \in scope : \A input \in RelInputs[t] :
          (\E f \in DOMAIN input \cap {"id", "email", "key_hash"} :
              Duplicates(db, t, f, input))
            => Rejected(InsertResult(db, t, input))
    /\ \A t \in scope : \A old \in db[t] :
          \A f \in DOMAIN old \cap {"id", "email", "key_hash"} :
            \A v \in RelVals(Entity(t), f) \ {Absent} :
              (\E r \in db[t] \ {old} : r[f] = v)
                => Rejected(UpdateResult(db, t, old, f, v))

\* Two users, with an insert and an update that would repeat an email
\* refused.
C10_Witness ==
    /\ Cardinality(db["users"]) >= 2
    /\ \E input \in RelInputs["users"] :
          /\ Duplicates(db, "users", "email", input)
          /\ ~Duplicates(db, "users", "id", input)
          /\ Rejected(InsertResult(db, "users", input))
    /\ \E old \in db["users"] : \E r \in db["users"] \ {old} :
          Rejected(UpdateResult(db, "users", old, "email", r.email))

----------------------------------------------------------------------------
(* Properties of one request *)

\* The model a request is checked against.
ModelOf(r) == IF r.op = "validate" THEN Shape(r.target) ELSE Entity(r.target)

\* What the request gives for field f: for an update, the value of the row
\* as it would be after the update.
Given(r, f) ==
    IF r.op = "update" /\ r.field = f THEN r.value ELSE r.input[f]

\* The request is the base input but for field f, or the update of field f
\* of a row of the seed.
OnlyChanges(r, f) ==
    IF r.op = "update" THEN r.field = f
    ELSE r.input = [FreshInput(ModelOf(r)) EXCEPT ![f] = r.input[f]]

\* The enum-typed fields: <<shape or table, field, enum>>.
EnumUses ==
    {<<"UserCreate", "user_type", "UserType">>,
     <<"UserContextCreate", "preferred_language", "Language">>,
     <<"UserContextUpdate", "preferred_language", "Language">>,
     <<"OrganizationCreate", "company_type", "CompanyType">>,
     <<"OrganizationCreate", "company_size", "CompanySize">>,
     <<"QueryCreate", "query_type", "QueryType">>,
     <<"QueryCreate", "language", "Language">>,
     <<"SubscriptionCreate", "pricing_plan", "PricingPlan">>,
     <<"DocumentUpload", "language", "Language">>,
     <<"ChatSessionCreate", "query_type", "QueryType">>,
     <<"ChatSessionCreate", "language", "Language">>,
     <<"users", "user_type", "UserType">>,
     <<"users", "account_type", "AccountType">>,
     <<"organizations", "company_type", "CompanyType">>,
     <<"organizations", "company_size", "CompanySize">>,
     <<"user_contexts", "preferred_language", "Language">>,
     <<"subscriptions", "pricing_plan", "PricingPlan">>,
     <<"documents", "language", "Language">>,
     <<"chat_sessions", "query_type", "QueryType">>,
     <<"chat_sessions", "language", "Language">>,
     <<"queries", "query_type", "QueryType">>,
     <<"queries", "language", "Language">>}

IsMember(v, e) == v.ty = "str" /\ v.s \in Members(e)

\* C2: a request whose value for an enum-typed field is not a member of the
\* enum is rejected; a request that is valid but for that field is accepted
\* with every member; no stored row holds a value outside the enum.
C2_EnumClosed ==
    /\ res.done =>
          \A e \in EnumUses : e[1] = req.target =>
            LET v == Given(req, e[2])
            IN  /\ (v \notin {None, Absent} /\ ~IsMember(v, e[3])) => ~res.ok
                /\ (IsMember(v, e[3]) /\ OnlyChanges(req, e[2])) => res.ok
    /\ \A e \in EnumUses : e[1] \in Tables =>
          \A r \in db[e[1]] : r[e[2]] = None \/ IsMember(r[e[2]], e[3])

\* The validation of a QueryCreate input that is valid but for its language,
\* "english", which is no member of Language, was refused.
C2_Witness ==
    /\ res.done /\ ~res.ok /\ req.op = "validate" /\ req.target = "QueryCreate"
    /\ req.input.language = Text("english")
    /\ OnlyChanges(req, "language")

\* The persistent entity a shape is the input of.
Mirrors(c) ==
    CASE c = "UserCreate" -> "users"
      [] c = "UserContextCreate" -> "user_contexts"
      [] c = "UserContextUpdate" -> "user_contexts"
      [] c = "OrganizationCreate" -> "organizations"
      [] c = "QueryCreate" -> "queries"
      [] c = "SubscriptionCreate" -> "subscriptions"
      [] c = "APIKeyCreate" -> "api_keys"
      [] c = "DocumentUpload" -> "documents"
      [] c = "ChatSessionCreate" -> "chat_sessions"

\* The two declarations constrain a value alike: type, enum, max length, and
\* (with precision) decimal precision.
SameConstraints(a, b, precision) ==
    /\ a.ty = b.ty
    /\ a.enum = b.enum
    /\ a.max_length = b.max_length
    /\ a.min_length = b.min_length
    /\ precision =>
          a.max_digits = b.max_digits /\ a.decimal_places = b.decimal_places

\* Every field of shape c outside skip is a field of the entity with the
\* same constraints (the decimal precision left aside for the fields of
\* loose), and the value the request was accepted with is accepted by the
\* entity's field; None stands for "no change" in an Update shape.
MirrorsEntity(c, skip, loose) ==
    LET m == Shape(c)
        e == Entity(Mirrors(c))
    IN  \A f \in DOMAIN m \ skip :
          /\ f \in DOMAIN e
          /\ SameConstraints(m[f], e[f], f \notin loose)
          /\ (res.done /\ res.ok /\ req.op = "validate" /\ req.target = c
                /\ f \notin loose)
                => \/ FieldOk(e[f], res.out[f])
                   \/ c = "UserContextUpdate" /\ res.out[f] = None

\* UserContextUpdate has the fields of UserContextCreate, each Optional with
\* default None and otherwise constrained alike.
UpdateIsOptionalCreate ==
    /\ DOMAIN UserContextUpdate = DOMAIN UserContextCreate
    /\ \A f \in DOMAIN UserContextUpdate :
          /\ UserContextUpdate[f].optional
          /\ UserContextUpdate[f].has_default
          /\ UserContextUpdate[f].default = None
          /\ SameConstraints(UserContextUpdate[f], UserContextCreate[f], TRUE)

\* C6, as stated: every field of every validation shape is a field of the
\* corresponding entity with the same name and the same value constraints,
\* and every value a shape accepts for a field is accepted by the entity's
\* field; UserContextUpdate is UserContextCreate with every field optional.
C6_ShapesMirrorEntities ==
    (res.done /\ req.op = "validate") =>
        /\ MirrorsEntity(req.target, {}, {})
        /\ UpdateIsOptionalCreate

\* The fields of a shape that are no field of its entity.
Unmirrored(c) ==
    CASE c = "UserCreate" -> {"password", "organization_name"}
      [] c = "ChatSessionCreate" -> {"document_ids"}
      [] OTHER -> {}

\* The fields of a shape declared without the decimal precision of the
\* entity's field.
Imprecise(c) ==
    IF c = "SubscriptionCreate" THEN {"week_pass_price"} ELSE {}

\* C6, amended: every field of a validation shape other than
\* UserCreate.password, UserCreate.organization_name and
\* ChatSessionCreate.document_ids is a field of the corresponding entity with
\* the same name, type, enum set and max length, and a value the shape
\* accepts for it is accepted by the entity's field, except that
\* SubscriptionCreate.week_pass_price has no decimal precision where
\* Subscription.week_pass_price has max_digits=10, decimal_places=2;
\* UserContextUpdate is UserContextCreate with every field optional.
C6_ShapesMirrorEntitiesAmended ==
    (res.done /\ req.op = "validate") =>
        /\ MirrorsEntity(req.target, Unmirrored(req.target), Imprecise(req.target))
        /\ \A f \in Unmirrored(req.target) :
              f \notin DOMAIN Entity(Mirrors(req.target))
        /\ \A f \in Imprecise(req.target) :
              ~SameConstraints(Shape(req.target)[f],
                               Entity(Mirrors(req.target))[f], TRUE)
        /\ UpdateIsOptionalCreate

\* A SubscriptionCreate input was accepted with a week_pass_price of four
\* decimal places, which Subscription.week_pass_price does not accept.
C6_Witness ==
    /\ res.done /\ res.ok /\ req.op = "validate" /\ req.target = "SubscriptionCreate"
    /\ res.out.week_pass_price = DecV(5, 4)
    /\ ~FieldOk(Subscription.week_pass_price, res.out.week_pass_price)
    /\ FieldOk(Subscription.token_allowance, res.out.token_allowance)

\* The fields the input of request r leaves out.
Omitted(r) == {f \in DOMAIN r.input : r.input[f] = Absent}

\* C7: an input that omits a field with no default is rejected; an input
\* that gives every required field and any subset of the fields with a
\* default is accepted, each omitted field taking its default (an omitted id
\* taking the next id of the table); a UserContextUpdate with no field is
\* accepted, every field None; an input without UserCreate.email,
\* QueryCreate.query_text or DocumentUpload.file_size is rejected.
C7_OptionalAndRequired ==
    (res.done /\ req.op \in {"validate", "insert"}) =>
        LET m == ModelOf(req)
        IN  /\ (\E f \in Omitted(req) : ~m[f].has_default) => ~res.ok
            /\ req.input \in Omissions(m) =>
                  /\ res.ok
                  /\ \A f \in Omitted(req) :
                        IF m[f].primary_key
                        THEN res.out[f] = IntV(NextId(Seed[req.target]))
                        ELSE res.out[f] = m[f].default
                  /\ \A f \in DOMAIN m \ Omitted(req) : res.out[f] = req.input[f]
            /\ (req.target = "UserContextUpdate" /\ Omitted(req) = DOMAIN m) =>
                  res.ok /\ \A f \in DOMAIN m : res.out[f] = None
            /\ \A e \in {<<"UserCreate", "email">>, <<"QueryCreate", "query_text">>,
                          <<"DocumentUpload", "file_size">>} :
                  (req.target = e[1] /\ e[2] \in Omitted(req)) => ~res.ok

\* A UserContextUpdate with no field at all was accepted.
C7_Witness ==
    /\ res.done /\ res.ok /\ req.op = "validate"
    /\ req.target = "UserContextUpdate"
    /\ Omitted(req) = DOMAIN UserContextUpdate

\* The row a request is about exists with these values.
Holds(row) == res.done /\ res.ok /\ res.out = row /\ row \in db["subscriptions"]

\* C8: the insert of a week-pass Subscription row is accepted whatever its
\* tokens_used and its token_allowance are, the allowance left out or None
\* included, and so is the update of either field of a Subscription row to
\* any integer.
C8_AllowanceNotEnforced ==
    (res.done /\ req.target = "subscriptions") =>
        /\ (/\ req.op = "insert"
             /\ req.input \in SubscriptionInputs
             /\ req.input.pricing_plan = Text("week_pass"))
              => Holds(res.out)
        /\ (/\ req.op = "update"
             /\ req.field \in {"tokens_used", "token_allowance"}
             /\ req.value.ty = "int")
              => Holds(res.out)

\* A week-pass Subscription row with more tokens used than its allowance.
C8_Witness ==
    \E r \in db["subscriptions"] :
        /\ r.pricing_plan = Text("week_pass")
        /\ r.token_allowance # None
        /\ r.tokens_used.n > r.token_allowance.n

\* C9: a Subscription row is accepted with either plan and any combination
\* of the week-pass fields (token_allowance, week_pass_price,
\* week_pass_expires_at) and the bestprice field
\* (current_price_per_1k_tokens) set or absent, and a SubscriptionCreate
\* input with either plan and token_allowance and week_pass_price set or
\* absent.
C9_PlanDoesNotConstrainFields ==
    res.done =>
        /\ (/\ req.op = "insert"
             /\ req.target = "subscriptions"
             /\ req.input \in SubscriptionInputs)
              => Holds(res.out)
        /\ (/\ req.op = "validate"
             /\ req.target = "SubscriptionCreate"
             /\ req.input \in SubscriptionCreateInputs)
              => res.ok

\* A bestprice Subscription row with the week-pass fields and the bestprice
\* field all set.
C9_Witness ==
    \E r \in db["subscriptions"] :
        /\ r.pricing_plan = Text("bestprice")
        /\ r.token_allowance # None
        /\ r.week_pass_price # None
        /\ r.week_pass_expires_at # None
        /\ r.current_price_per_1k_tokens # None

====
